---------------------------- MODULE Spec2Model ----------------------------
(***************************************************************************)
(* A model of the almetica server core:                                    *)
(*   - the Pike stream cipher (src/src/crypt/streamcipher.rs): key         *)
(*     expansion, the three lagged-Fibonacci generators, majority          *)
(*     clocking and apply_keystream;                                       *)
(*   - the connection handshake GameSession::new (src/src/protocol.rs).    *)
(*                                                                         *)
(* TLC's integers are 32-bit signed, so a u32 is kept as its four bytes,   *)
(* least significant first: <<b0, b1, b2, b3>>.  All arithmetic on it is   *)
(* done modulo 2^32 with the carry out of the top byte captured.           *)
(***************************************************************************)
EXTENDS Integers, Sequences, FiniteSets, TLC

(***************************************************************************)
(* Bounds of the model.                                                    *)
(***************************************************************************)
\* total number of plaintext bytes a cipher run hands to apply_keystream
MaxTotal == 32
\* longest buffer one apply_keystream call gets
MaxLen == 8
\* ciphertext bytes that may be in flight between the encrypting and the
\* decrypting peer
MaxInFlight == 8

(***************************************************************************)
(* Program constants.                                                      *)
(***************************************************************************)
KeyLen == 128
ExpandedLen == 680
HashStride == 20

Byte == 0..255

(***************************************************************************)
(* u8 / u32 arithmetic.                                                    *)
(***************************************************************************)
RECURSIVE XorBits(_, _, _)
XorBits(a, b, n) ==
    IF n = 0 THEN 0
    ELSE ((a + b) % 2) + 2 * XorBits(a \div 2, b \div 2, n - 1)

\* u8 ^ u8
XorByte(a, b) == XorBits(a, b, 8)

\* the u32 literal 0
ZeroWord == <<0, 0, 0, 0>>

\* u32 ^ u32
XorWord(x, y) ==
    <<XorByte(x[1], y[1]), XorByte(x[2], y[2]), XorByte(x[3], y[3]), XorByte(x[4], y[4])>>

\* (w >> shift) as u8, for the shifts 0, 8, 16, 24 the code uses
ShrU8(w, shift) == w[(shift \div 8) + 1]

\* u32::overflowing_add: the wrapped sum and whether the add overflowed
OverflowingAdd(x, y) ==
    LET lo == (x[1] + 256 * x[2]) + (y[1] + 256 * y[2])
        hi == (x[3] + 256 * x[4]) + (y[3] + 256 * y[4]) + (lo \div 65536)
        l  == lo % 65536
        h  == hi % 65536
    IN  [sum   |-> <<l % 256, l \div 256, h % 256, h \div 256>>,
         carry |-> hi >= 65536]

\* LittleEndian::read_u32(&buf[at..]), at counted from 0
ReadU32(buf, at) == <<buf[at + 1], buf[at + 2], buf[at + 3], buf[at + 4]>>

\* LittleEndian::write_u32(&mut buf[at..], w), at counted from 0
WriteU32(buf, at, w) ==
    SubSeq(buf, 1, at) \o <<w[1], w[2], w[3], w[4]>> \o SubSeq(buf, at + 5, Len(buf))

(***************************************************************************)
(* crypt::sha1::Sha1.  The digest lives in crypt/sha1.rs, which is not     *)
(* among the sources; StreamCipher::new only uses it as a function from    *)
(* the whole 680-byte buffer to five u32 words.  It is kept as such a      *)
(* function (a position-sensitive checksum spread over five words), not    *)
(* as the bit-exact round function.                                        *)
(***************************************************************************)
RECURSIVE Sha1Fold(_, _, _)
Sha1Fold(buf, lo, hi) ==
    IF lo = hi THEN <<buf[lo], (((lo * lo) % 253) + 1) * buf[lo]>>
    ELSE LET mid == (lo + hi) \div 2
             l   == Sha1Fold(buf, lo, mid)
             r   == Sha1Fold(buf, mid + 1, hi)
         IN  <<l[1] + r[1], l[2] + r[2]>>

Sha1Hash(buf) ==
    LET f == Sha1Fold(buf, 1, Len(buf))
        s == <<f[1] % 65521, f[2] % 65521>>
    IN  [j \in 1..5 |->
            [m \in 1..4 |->
                (s[1] * (7 * j + m + 2) + s[2] * (j + 3 * m) + 89 * j * m) % 256]]

(***************************************************************************)
(* TLC evaluates an operator's argument each time the operator's body      *)
(* uses it.  Bind(v, F) evaluates v once and is F(v).                      *)
(***************************************************************************)
Bind(v, F(_)) == CHOOSE r \in {F(x) : x \in {v}} : TRUE

(***************************************************************************)
(* KeyGenerator::new(size, coefficient)                                    *)
(***************************************************************************)
KeyGeneratorNew(size, coefficient) ==
    [size   |-> size,
     pos1   |-> 0,
     pos2   |-> coefficient,
     carry  |-> FALSE,
     buffer |-> SubSeq([i \in 1..size |-> ZeroWord], 1, size),
     sum    |-> ZeroWord]

(***************************************************************************)
(* StreamCipher::new(key): key expansion and seeding.                      *)
(***************************************************************************)
\* a fill whose loop starts at 0 and so overwrites the 128 in byte 0
ExpandedKeyInit_LoopFromZero(key) ==
    SubSeq([i \in 1..ExpandedLen |-> key[((i - 1) % KeyLen) + 1]], 1, ExpandedLen)

\* expanded_key before the hash passes: byte 0 is 128, byte i is key[i % 128]
ExpandedKeyInit(key) ==
    SubSeq([i \in 1..ExpandedLen |->
               IF i = 1 THEN 128 ELSE key[((i - 1) % KeyLen) + 1]],
           1, ExpandedLen)

\* the inner loop: the five hash words written little-endian at i, i+4, ..
RECURSIVE WriteHash(_, _, _, _)
WriteHash(buf, i, hash, j) ==
    IF j >= HashStride THEN buf
    ELSE WriteHash(WriteU32(buf, i + j, hash[(j \div 4) + 1]), i, hash, j + 4)

\* the outer loop: for i in (0..680).step_by(20)
RECURSIVE ExpandPasses(_, _)
ExpandPasses(buf, i) ==
    IF i >= Len(buf) THEN buf
    ELSE ExpandPasses(WriteHash(buf, i, Sha1Hash(buf), 0), i + HashStride)

ExpandKey(key) == ExpandPasses(ExpandedKeyInit(key), 0)

\* one generator with its buffer filled from expanded_key[offset + 4*i ..]
SeedGenerator(g, expanded_key, offset) ==
    [g EXCEPT !.buffer = SubSeq([i \in 1..g.size |->
                                    ReadU32(expanded_key, (i - 1) * 4 + offset)],
                                1, g.size)]

\* clocks counts the clock_keys calls made on the session since it was
\* built: a history counter, not a field of the struct.
StreamCipherNew(key) ==
    Bind(ExpandKey(key), LAMBDA expanded_key :
        [generators  |-> <<SeedGenerator(KeyGeneratorNew(55, 31), expanded_key, 0),
                           SeedGenerator(KeyGeneratorNew(57, 50), expanded_key, 220),
                           SeedGenerator(KeyGeneratorNew(58, 39), expanded_key, 448)>>,
         change_data |-> ZeroWord,
         change_len  |-> 0,
         clocks      |-> 0])

(***************************************************************************)
(* StreamCipher::clock_keys                                                *)
(***************************************************************************)
\* a clock that waits for all three carries instead of two of three
KeyClock_Unanimous(gens) ==
    gens[1].carry /\ gens[2].carry /\ gens[3].carry

\* the majority of the three carry bits
KeyClock(gens) ==
    (gens[1].carry /\ gens[2].carry)
        \/ (gens[3].carry /\ (gens[1].carry \/ gens[2].carry))

\* a step that also stores the sum in the slot it read through pos1
AdvanceGenerator_WriteBack(k) ==
    Bind(OverflowingAdd(k.buffer[k.pos1 + 1], k.buffer[k.pos2 + 1]), LAMBDA r :
        [k EXCEPT !.carry  = r.carry,
                  !.sum    = r.sum,
                  !.buffer = SubSeq(k.buffer, 1, k.pos1) \o <<r.sum>>
                                 \o SubSeq(k.buffer, k.pos1 + 2, k.size),
                  !.pos1   = (k.pos1 + 1) % k.size,
                  !.pos2   = (k.pos2 + 1) % k.size])

\* a step that wraps pos2 one slot early
AdvanceGenerator_EarlyWrap(k) ==
    Bind(OverflowingAdd(k.buffer[k.pos1 + 1], k.buffer[k.pos2 + 1]), LAMBDA r :
        [k EXCEPT !.carry = r.carry,
                  !.sum   = r.sum,
                  !.pos1  = (k.pos1 + 1) % k.size,
                  !.pos2  = (k.pos2 + 1) % (k.size - 1)])

\* a step that takes the new pos2 from pos1
AdvanceGenerator_Pos2FromPos1(k) ==
    Bind(OverflowingAdd(k.buffer[k.pos1 + 1], k.buffer[k.pos2 + 1]), LAMBDA r :
        [k EXCEPT !.carry = r.carry,
                  !.sum   = r.sum,
                  !.pos1  = (k.pos1 + 1) % k.size,
                  !.pos2  = (k.pos1 + 1) % k.size])

\* the body of `if key_clock == k.carry`: one step of one generator
AdvanceGenerator(k) ==
    Bind(OverflowingAdd(k.buffer[k.pos1 + 1], k.buffer[k.pos2 + 1]), LAMBDA r :
        [k EXCEPT !.carry = r.carry,
                  !.sum   = r.sum,
                  !.pos1  = (k.pos1 + 1) % k.size,
                  !.pos2  = (k.pos2 + 1) % k.size])

\* an iteration that steps the generators in the minority
ClockGenerator_Minority(k, key_clock) ==
    IF key_clock # k.carry THEN AdvanceGenerator(k) ELSE k

\* one iteration of `for k in self.generators.iter_mut()`
ClockGenerator(k, key_clock) ==
    IF key_clock = k.carry THEN AdvanceGenerator(k) ELSE k

ClockKeys(sc) ==
    Bind(KeyClock(sc.generators), LAMBDA key_clock :
        [sc EXCEPT
            !.generators = <<ClockGenerator(sc.generators[1], key_clock),
                             ClockGenerator(sc.generators[2], key_clock),
                             ClockGenerator(sc.generators[3], key_clock)>>,
            !.clocks = @ + 1])

(***************************************************************************)
(* StreamCipher::apply_keystream(data).  The result is the session and the *)
(* buffer as the call leaves them, and whether the call panicked.          *)
(* overflow_checks is the build's setting: with it (debug profile) the     *)
(* usize subtraction size - 3 panics when size < 3; without it (release    *)
(* profile) it wraps to a huge bound and the loop body indexes past the    *)
(* end of data, which panics at the first index out of bounds.             *)
(***************************************************************************)
\* data with the bytes from..to (counted from 1) XORed with the bytes of
\* the word w starting at its byte first (counted from 0)
XorInto(data, from, to, w, first) ==
    SubSeq(data, 1, from - 1)
        \o SubSeq([x \in 1..to |->
                      IF x >= from
                      THEN XorByte(data[x], ShrU8(w, 8 * (first + x - from)))
                      ELSE 0],
                  from, to)
        \o SubSeq(data, to + 1, Len(data))

\* phase 1: the bytes owed from change_data
Leftover(sc, data, pre) ==
    IF pre # 0
    THEN [sc   |-> [sc EXCEPT !.change_len = @ - pre],
          data |-> XorInto(data, 1, pre, sc.change_data, 4 - sc.change_len)]
    ELSE [sc |-> sc, data |-> data]

\* `for k in generators { data[i] ^= k.sum as u8; .. data[i+3] ^= (k.sum >> 24) as u8 }`
\* i counted from 0
XorSums(gens, data, i) ==
    Bind(XorInto(data, i + 1, i + 4, gens[1].sum, 0), LAMBDA d1 :
    Bind(XorInto(d1, i + 1, i + 4, gens[2].sum, 0), LAMBDA d2 :
         XorInto(d2, i + 1, i + 4, gens[3].sum, 0)))

\* phase 2: for i in (pre..size - 3).step_by(4), with size >= 3
RECURSIVE WordLoop(_, _, _)
WordLoop(sc, data, i) ==
    IF i >= Len(data) - 3 THEN [sc |-> sc, data |-> data]
    ELSE Bind(ClockKeys(sc), LAMBDA sc2 :
         Bind(XorSums(sc2.generators, data, i), LAMBDA d2 :
              WordLoop(sc2, d2, i + 4)))

\* phase 2 when size - 3 has wrapped: the first iteration clocks, XORs the
\* first generator's sum into the bytes of data that exist from i on, and
\* panics at the first index past the end
WrappedLoop(sc, data, i) ==
    Bind(ClockKeys(sc), LAMBDA sc2 :
        [sc   |-> sc2,
         data |-> XorInto(data, i + 1, Len(data), sc2.generators[1].sum, 0)])

\* a tail whose saved word takes in the last byte it produced
TailBytes_DataFeedback(sc, data, remain) ==
    Bind(ClockKeys(sc), LAMBDA sc2 :
    Bind(XorWord(XorWord(XorWord(ZeroWord, sc2.generators[1].sum),
                         sc2.generators[2].sum),
                 sc2.generators[3].sum), LAMBDA cd :
    Bind(XorInto(data, Len(data) - remain + 1, Len(data), cd, 0), LAMBDA out :
        [sc   |-> [sc2 EXCEPT !.change_data = XorWord(cd, <<0, 0, 0, out[Len(out)]>>),
                              !.change_len = 4 - remain],
         data |-> out])))

\* a tail that records the bytes it used instead of the bytes it owes
TailBytes_CountsUsed(sc, data, remain) ==
    Bind(ClockKeys(sc), LAMBDA sc2 :
    Bind(XorWord(XorWord(XorWord(ZeroWord, sc2.generators[1].sum),
                         sc2.generators[2].sum),
                 sc2.generators[3].sum), LAMBDA cd :
        [sc   |-> [sc2 EXCEPT !.change_data = cd, !.change_len = remain],
         data |-> XorInto(data, Len(data) - remain + 1, Len(data), cd, 0)]))

\* phase 3: the 1..3 bytes left after the full words
TailBytes(sc, data, remain) ==
    Bind(ClockKeys(sc), LAMBDA sc2 :
    Bind(XorWord(XorWord(XorWord(ZeroWord, sc2.generators[1].sum),
                         sc2.generators[2].sum),
                 sc2.generators[3].sum), LAMBDA cd :
        [sc   |-> [sc2 EXCEPT !.change_data = cd, !.change_len = 4 - remain],
         data |-> XorInto(data, Len(data) - remain + 1, Len(data), cd, 0)]))

ApplyKeystream(sc, data, overflow_checks) ==
    LET size   == Len(data)
        pre    == IF size < sc.change_len THEN size ELSE sc.change_len
        remain == (size - pre) % 4
    IN  Bind(Leftover(sc, data, pre), LAMBDA p :
            IF size < 3
            THEN IF overflow_checks
                 THEN [sc |-> p.sc, data |-> p.data, panicked |-> TRUE]
                 ELSE Bind(WrappedLoop(p.sc, p.data, pre), LAMBDA w :
                          [sc |-> w.sc, data |-> w.data, panicked |-> TRUE])
            ELSE Bind(WordLoop(p.sc, p.data, pre), LAMBDA w :
                 Bind(IF remain # 0 THEN TailBytes(w.sc, w.data, remain) ELSE w,
                      LAMBDA t :
                          [sc |-> t.sc, data |-> t.data, panicked |-> FALSE])))

(***************************************************************************)
(* The cipher run.  One key and one plaintext byte sequence are drawn at   *)
(* the start.  The encrypting peer hands the plaintext to apply_keystream  *)
(* in consecutive chunks of any length; every chunk of ciphertext goes on  *)
(* the wire, and the decrypting peer, whose session was built from the     *)
(* same key, applies its keystream to the chunks as they arrive.  A twin   *)
(* of the encrypting session, built from the same key, is driven by calls  *)
(* of the same lengths on all-zero buffers.                                *)
(***************************************************************************)
VARIABLES
    overflow_checks,  \* the build: TRUE debug profile, FALSE release profile
    key,              \* the 128-byte key both peers built their session from
    fresh,            \* StreamCipher::new(key), as the peers got it
    plain,            \* the plaintext byte sequence
    enc,              \* the encrypting StreamCipher
    twin,             \* the twin StreamCipher, fed zeros
    dec,              \* the decrypting StreamCipher
    offset,           \* plaintext bytes handed to enc so far
    last,             \* the last apply_keystream call on enc and on twin
    wire,             \* ciphertext chunks not yet decrypted
    dec_last,         \* the last apply_keystream call on dec
    panicked          \* the sessions whose last call panicked

cvars == <<overflow_checks, key, fresh, plain, enc, twin, dec, offset, last, wire,
           dec_last, panicked>>

(***************************************************************************)
(* The handshake run: one call of GameSession::new on a stream.            *)
(***************************************************************************)
VARIABLES
    hs_pc,         \* the stream operation new() is awaiting: 1..5, 6 once it returned, 0 never called
    hs_progress,   \* bytes of that operation the stream has transferred so far
    client_key_1,  \* the local buffers of new()
    client_key_2,
    server_key_1,
    server_key_2,
    inbound,       \* the bytes the client has sent and new() has not read yet
    outbound,      \* the bytes written to the stream so far
    ops,           \* the stream operations that completed or failed, in order
    result,        \* what new() returned: "pending", "Ok" or "Err"
    session        \* the GameSession new() returned, None until then

hvars == <<hs_pc, hs_progress, client_key_1, client_key_2, server_key_1,
           server_key_2, inbound, outbound, ops, result, session>>

(***************************************************************************)
(* One call of StreamCipher::new, step by step.                            *)
(***************************************************************************)
VARIABLES
    new_key,          \* the key argument
    new_pc,           \* where new() stands
    new_sc,           \* the local sc
    new_expanded_key, \* the local expanded_key
    new_i,            \* i of `for i in (0..680).step_by(20)`
    new_ret,          \* the session new() returned, if it did
    new_passes,       \* the hash passes made so far, each [at, hashed]
    new_reads         \* the byte ranges of expanded_key read into the generators

kvars == <<new_key, new_pc, new_sc, new_expanded_key, new_i, new_ret,
           new_passes, new_reads>>

(***************************************************************************)
(* One run of the almetica binary.                                         *)
(***************************************************************************)
VARIABLES
    run_cmd,          \* the subcommand on the command line
    run_env,          \* which of the calls main() depends on fail in this run
    run_pc,           \* where main() stands
    run_tasks,        \* the multiverse, web server and network server tasks
    run_log,          \* the error! lines written so far
    run_result,       \* what run_command() returned
    exit_code         \* the code the process exited with, if it has

rvars == <<run_cmd, run_env, run_pc, run_tasks, run_log, run_result, exit_code>>

(***************************************************************************)
(* One connection after its handshake: the read path of the session and    *)
(* the multiverse end of the global channel.                               *)
(***************************************************************************)
VARIABLES
    conn_frames,      \* the frames the client sends, in wire order
    conn_in,          \* the ciphered bytes not yet read from the socket
    conn_cipher,      \* the StreamCipher of the inbound direction
    conn_state,       \* Authenticating, Active, Closing or Closed
    conn_uid,         \* the user-id of the session
    conn_pc,          \* where the read loop stands
    conn_hdr,         \* the header of the frame being read
    conn_event,       \* the event waiting for room in the global channel
    conn_done,        \* frames read, decrypted and mapped so far
    conn_sent,        \* the events enqueued so far, in order
    conn_response,    \* the event from the multiverse not yet handled
    global_channel,   \* the global channel: events enqueued and not yet taken
    mv_received       \* the events the multiverse has taken, in order

nvars == <<conn_frames, conn_in, conn_cipher, conn_state, conn_uid, conn_pc,
           conn_hdr, conn_event, conn_done, conn_sent, conn_response,
           global_channel, mv_received>>

(***************************************************************************)
(* One call of create_account of the almetica binary, with the accounts    *)
(* the database holds.                                                     *)
(***************************************************************************)
VARIABLES
    acc_name,         \* matches.value_of("name").unwrap_or_default()
    acc_password,     \* matches.value_of("password").unwrap_or_default()
    acc_store,        \* the stored accounts, in the order of their IDs
    acc_before,       \* the stored accounts when create_account was called
    acc_pc,           \* where create_account stands
    acc_lookup,       \* what account::get_by_name returned
    acc_result,       \* what create_account returned
    acc_log           \* the info! and error! lines written so far

avars == <<acc_name, acc_password, acc_store, acc_before, acc_pc, acc_lookup,
           acc_result, acc_log>>

xvars == <<kvars, rvars, nvars, avars>>

\* the variables a cipher, handshake or construction run leaves alone
not_kvars == <<cvars, hvars, rvars, nvars, avars>>
not_rvars == <<cvars, hvars, kvars, nvars, avars>>
\* the variables a connection leaves alone, but for the build
not_nvars == <<key, fresh, plain, enc, twin, dec, offset, last, wire, dec_last,
               panicked, hvars, kvars, rvars, avars>>
\* the variables a call of create_account leaves alone
not_avars == <<cvars, hvars, kvars, rvars, nvars>>

vars == <<cvars, hvars, xvars>>

\* Option<T>
None == <<>>
Some(x) == <<x>>

\* the variables of new() while no call of new() is followed
NewIdle ==
    /\ new_key = <<>>
    /\ new_pc = "idle"
    /\ new_sc = None
    /\ new_expanded_key = <<>>
    /\ new_i = 0
    /\ new_ret = None
    /\ new_passes = <<>>
    /\ new_reads = <<>>

\* the variables of the binary while no run of it is followed
RunIdle ==
    /\ run_cmd = "none"
    /\ run_env = <<>>
    /\ run_pc = "idle"
    /\ run_tasks = <<>>
    /\ run_log = <<>>
    /\ run_result = "pending"
    /\ exit_code = None

\* the variables of the connection while no connection is followed
ConnIdle ==
    /\ conn_frames = <<>>
    /\ conn_in = <<>>
    /\ conn_cipher = None
    /\ conn_state = "none"
    /\ conn_uid = None
    /\ conn_pc = "idle"
    /\ conn_hdr = None
    /\ conn_event = None
    /\ conn_done = 0
    /\ conn_sent = <<>>
    /\ conn_response = None
    /\ global_channel = <<>>
    /\ mv_received = <<>>

\* the variables of create_account while no call of it is followed
AccountIdle ==
    /\ acc_name = 0
    /\ acc_password = 0
    /\ acc_store = <<>>
    /\ acc_before = <<>>
    /\ acc_pc = "idle"
    /\ acc_lookup = None
    /\ acc_result = <<"pending">>
    /\ acc_log = <<>>

ExtraIdle == NewIdle /\ RunIdle /\ ConnIdle /\ AccountIdle

\* the handshake variables while no handshake runs
HandshakeIdle ==
    /\ hs_pc = 0
    /\ hs_progress = 0
    /\ client_key_1 = <<>>
    /\ client_key_2 = <<>>
    /\ server_key_1 = <<>>
    /\ server_key_2 = <<>>
    /\ inbound = <<>>
    /\ outbound = <<>>
    /\ ops = <<>>
    /\ result = "pending"
    /\ session = None

\* the keys of the run: the key of the module's tests (0x12 repeated) and
\* a key of varying bytes
Keys ==
    { [i \in 1..KeyLen |-> 18],
      [i \in 1..KeyLen |-> (i * i + 101) % 256] }

\* the plaintext of the run: varying bytes with runs of zero bytes (the
\* all-zero plaintext of the module's tests is what the twin session gets)
Plaintexts ==
    { [i \in 1..MaxTotal |-> IF i % 8 \in {5, 6} THEN 0 ELSE (37 * i + 206) % 256] }

Zeros(n) == SubSeq([i \in 1..n |-> 0], 1, n)

\* calls counts the apply_keystream calls made on enc so far
NoCall == [calls |-> 0, at |-> 0, in |-> <<>>, out |-> <<>>, twin_out |-> <<>>]

CipherInit ==
    /\ overflow_checks \in BOOLEAN
    /\ key \in Keys
    /\ plain \in Plaintexts
    /\ fresh = StreamCipherNew(key)
    /\ enc = fresh
    /\ twin = fresh
    /\ dec = fresh
    /\ offset = 0
    /\ last = NoCall
    /\ wire = <<>>
    /\ dec_last = [at |-> 0, in |-> <<>>, out |-> <<>>]
    /\ panicked = {}
    /\ HandshakeIdle
    /\ ExtraIdle

\* the ciphertext bytes on the wire
RECURSIVE InFlight(_)
InFlight(w) == IF w = <<>> THEN 0 ELSE Len(Head(w).data) + InFlight(Tail(w))

\* the encrypting peer calls enc.apply_keystream on the next n plaintext
\* bytes (and the twin on n zero bytes) and sends the chunk
Encrypt(n) ==
    /\ "enc" \notin panicked
    /\ offset + n <= MaxTotal
    /\ InFlight(wire) + n <= MaxInFlight
    /\ \E data \in {SubSeq(plain, offset + 1, offset + n)} :
       \E r \in {ApplyKeystream(enc, data, overflow_checks)} :
       \E z \in {ApplyKeystream(twin, Zeros(n), overflow_checks)} :
           /\ enc' = r.sc
           /\ twin' = z.sc
           /\ last' = [calls |-> last.calls + 1, at |-> offset, in |-> data,
                       out |-> r.data, twin_out |-> z.data]
           /\ offset' = offset + n
           /\ wire' = IF r.panicked THEN wire
                      ELSE Append(wire, [at |-> offset, data |-> r.data])
           /\ panicked' = panicked \cup (IF r.panicked THEN {"enc"} ELSE {})
                                   \cup (IF z.panicked THEN {"twin"} ELSE {})
    /\ UNCHANGED <<overflow_checks, key, fresh, plain, dec, dec_last>>
    /\ UNCHANGED <<hvars, xvars>>

\* the decrypting peer calls dec.apply_keystream on the chunk at the head of
\* the wire
Decrypt ==
    /\ "dec" \notin panicked
    /\ wire # <<>>
    /\ \E c \in {Head(wire)} :
       \E r \in {ApplyKeystream(dec, c.data, overflow_checks)} :
           /\ dec' = r.sc
           /\ dec_last' = [at |-> c.at, in |-> c.data, out |-> r.data]
           /\ panicked' = panicked \cup (IF r.panicked THEN {"dec"} ELSE {})
    /\ wire' = Tail(wire)
    /\ UNCHANGED <<overflow_checks, key, fresh, plain, enc, twin, offset, last>>
    /\ UNCHANGED <<hvars, xvars>>

CipherNext ==
    \/ \E n \in 0..MaxLen : Encrypt(n)
    \/ Decrypt

Spec == CipherInit /\ [][CipherNext]_vars

(***************************************************************************)
(* GameSession::new(stream, addr).  The function awaits five stream        *)
(* operations in turn; write_all and read_exact complete once the stream   *)
(* has taken or delivered every byte of the buffer, which it may do in     *)
(* several partial transfers, and fail as soon as one transfer fails.      *)
(***************************************************************************)
\* sizes of the partial transfers a stream makes
FragSizes == {1, 50, 128}
\* bytes the client has sent after its second key when the handshake starts
TrailingBytes == 4

MagicWordLen == 4
\* the magic word 1 written big-endian
magic_word_buffer_be == <<0, 0, 0, 1>>

magic_word_buffer == <<1, 0, 0, 0>>

addr == "127.0.0.1:8080"

\* [0; 128]
ZeroKey == [i \in 1..KeyLen |-> 0]

\* the keys a client sends: the blocks of the module's test (0xAA, 0xCC
\* repeated) and a block of varying bytes
ClientKeys ==
    { [i \in 1..KeyLen |-> 170],
      [i \in 1..KeyLen |-> 204],
      [i \in 1..KeyLen |-> (5 * i + 1) % 256] }

\* what OsRng.fill_bytes may leave in a 128-byte buffer
RandomKeys ==
    { [i \in 1..KeyLen |-> (11 * i + 7) % 256],
      [i \in 1..KeyLen |-> (i * i + 29) % 256] }

\* crypt::CryptSession lives in crypt/mod.rs, which is not among the
\* sources: the session is kept as the four half-keys it was built from
CryptSessionNew(client_keys, server_keys) ==
    [client_keys |-> client_keys, server_keys |-> server_keys]

\* the stream operation awaited at each position of new()
StepOp(pc) == IF pc \in {1, 3, 5} THEN "write_all" ELSE "read_exact"
StepLen(pc) == IF pc = 1 THEN MagicWordLen ELSE KeyLen

HandshakeInit ==
    /\ hs_pc = 1
    /\ hs_progress = 0
    /\ client_key_1 = ZeroKey
    /\ client_key_2 = ZeroKey
    /\ server_key_1 = ZeroKey
    /\ server_key_2 = ZeroKey
    /\ \E k1 \in ClientKeys, k2 \in ClientKeys :
          inbound = k1 \o k2 \o [i \in 1..TrailingBytes |-> 240 + i]
    /\ outbound = <<>>
    /\ ops = <<>>
    /\ result = "pending"
    /\ session = None
    /\ overflow_checks = FALSE
    /\ key = <<>>
    /\ fresh = None
    /\ plain = <<>>
    /\ enc = None
    /\ twin = None
    /\ dec = None
    /\ offset = 0
    /\ last = NoCall
    /\ wire = <<>>
    /\ dec_last = [at |-> 0, in |-> <<>>, out |-> <<>>]
    /\ panicked = {}
    /\ ExtraIdle

\* the stream takes the next n bytes of buf: one partial transfer of write_all
WriteSome(buf, n) ==
    /\ result = "pending"
    /\ n \in FragSizes \cup {Len(buf) - hs_progress}
    /\ n >= 1
    /\ hs_progress + n <= Len(buf)
    /\ outbound' = outbound \o SubSeq(buf, hs_progress + 1, hs_progress + n)
    /\ inbound' = inbound

\* the stream delivers the next n bytes: one partial transfer of read_exact
ReadSome(len, n) ==
    /\ result = "pending"
    /\ n \in FragSizes \cup {len - hs_progress}
    /\ n >= 1
    /\ hs_progress + n <= len
    /\ n <= Len(inbound)
    /\ inbound' = SubSeq(inbound, n + 1, Len(inbound))
    /\ outbound' = outbound

\* buf with the n delivered bytes stored from hs_progress on
Filled(buf, n) ==
    SubSeq(buf, 1, hs_progress) \o SubSeq(inbound, 1, n)
        \o SubSeq(buf, hs_progress + n + 1, Len(buf))

\* a transfer taken for the whole operation (write for write_all, read for
\* read_exact)
Progress_FirstTransfer(len, n) ==
    /\ hs_pc' = hs_pc + 1
    /\ hs_progress' = 0
    /\ ops' = Append(ops, [op |-> StepOp(hs_pc), len |-> len, result |-> "ok",
                           written |-> Len(outbound'),
                           read |-> Len(inbound')])

\* where new() stands after a transfer of n bytes of an operation of len
\* bytes: still in the operation, or past it with the operation logged
Progress(len, n) ==
    IF hs_progress + n < len
    THEN /\ hs_pc' = hs_pc
         /\ hs_progress' = hs_progress + n
         /\ ops' = ops
    ELSE /\ hs_pc' = hs_pc + 1
         /\ hs_progress' = 0
         /\ ops' = Append(ops, [op |-> StepOp(hs_pc), len |-> len, result |-> "ok",
                                written |-> Len(outbound'),
                                read |-> Len(inbound')])

\* stream.write_all(&magic_word_buffer).await
SendMagicWord(n) ==
    /\ hs_pc = 1
    /\ WriteSome(magic_word_buffer, n)
    /\ Progress(MagicWordLen, n)
    /\ UNCHANGED <<client_key_1, client_key_2, server_key_1, server_key_2,
                   result, session>>
    /\ UNCHANGED <<cvars, xvars>>

\* stream.read_exact(&mut client_key_1).await, then OsRng.fill_bytes(&mut server_key_1)
ReadClientKey1(n, rnd) ==
    /\ hs_pc = 2
    /\ ReadSome(KeyLen, n)
    /\ client_key_1' = Filled(client_key_1, n)
    /\ Progress(KeyLen, n)
    /\ server_key_1' = IF hs_progress + n = KeyLen THEN rnd ELSE server_key_1
    /\ UNCHANGED <<client_key_2, server_key_2, result, session>>
    /\ UNCHANGED <<cvars, xvars>>

\* stream.write_all(&server_key_1).await
WriteServerKey1(n) ==
    /\ hs_pc = 3
    /\ WriteSome(server_key_1, n)
    /\ Progress(KeyLen, n)
    /\ UNCHANGED <<client_key_1, client_key_2, server_key_1, server_key_2,
                   result, session>>
    /\ UNCHANGED <<cvars, xvars>>

\* stream.read_exact(&mut client_key_2).await, then OsRng.fill_bytes(&mut server_key_2)
ReadClientKey2(n, rnd) ==
    /\ hs_pc = 4
    /\ ReadSome(KeyLen, n)
    /\ client_key_2' = Filled(client_key_2, n)
    /\ Progress(KeyLen, n)
    /\ server_key_2' = IF hs_progress + n = KeyLen THEN rnd ELSE server_key_2
    /\ UNCHANGED <<client_key_1, server_key_1, result, session>>
    /\ UNCHANGED <<cvars, xvars>>

\* stream.write_all(&server_key_2).await, then the crypt session and the
\* game session are built and new() returns Ok(gs)
WriteServerKey2(n) ==
    /\ hs_pc = 5
    /\ WriteSome(server_key_2, n)
    /\ Progress(KeyLen, n)
    /\ IF hs_progress + n = KeyLen
       THEN /\ session' = Some([uid   |-> None,
                                addr  |-> addr,
                                crypt |-> CryptSessionNew(
                                              <<client_key_1, client_key_2>>,
                                              <<server_key_1, server_key_2>>)])
            /\ result' = "Ok"
       ELSE UNCHANGED <<session, result>>
    /\ UNCHANGED <<client_key_1, client_key_2, server_key_1, server_key_2>>
    /\ UNCHANGED <<cvars, xvars>>

\* an Err(e) arm that logs the error and goes on to the next operation
StepFails_GoesOn ==
    /\ hs_pc \in 1..5
    /\ result = "pending"
    /\ ops' = Append(ops, [op |-> StepOp(hs_pc), len |-> StepLen(hs_pc),
                           result |-> "err",
                           written |-> Len(outbound), read |-> Len(inbound)])
    /\ hs_pc' = hs_pc + 1
    /\ hs_progress' = 0
    /\ UNCHANGED <<result, client_key_1, client_key_2, server_key_1,
                   server_key_2, inbound, outbound, session>>
    /\ UNCHANGED <<cvars, xvars>>

\* the Err(e) arm of the operation awaited: the transfer fails (an I/O
\* error, or the stream is at its end), new() logs it and returns
\* Err(Error::Io(e))
StepFails ==
    /\ hs_pc \in 1..5
    /\ result = "pending"
    /\ ops' = Append(ops, [op |-> StepOp(hs_pc), len |-> StepLen(hs_pc),
                           result |-> "err",
                           written |-> Len(outbound), read |-> Len(inbound)])
    /\ result' = "Err"
    /\ hs_pc' = 6
    /\ UNCHANGED <<hs_progress, client_key_1, client_key_2, server_key_1,
                   server_key_2, inbound, outbound, session>>
    /\ UNCHANGED <<cvars, xvars>>

HandshakeNext ==
    \/ \E n \in 1..KeyLen : SendMagicWord(n)
    \/ \E n \in 1..KeyLen, rnd \in RandomKeys : ReadClientKey1(n, rnd)
    \/ \E n \in 1..KeyLen : WriteServerKey1(n)
    \/ \E n \in 1..KeyLen, rnd \in RandomKeys : ReadClientKey2(n, rnd)
    \/ \E n \in 1..KeyLen : WriteServerKey2(n)
    \/ StepFails

SpecHandshake == HandshakeInit /\ [][HandshakeNext]_vars

(***************************************************************************)
(* The construction run: one call of StreamCipher::new on a key of any     *)
(* length.                                                                 *)
(***************************************************************************)
\* longest key handed to new()
MaxKeyLen == 200

\* the lengths of the keys handed to new()
KeyArgLens == {0, 1, KeyLen - 1, KeyLen, KeyLen + 1, MaxKeyLen}

\* the keys handed to new(): 0x12 repeated and varying bytes, of each length
KeyArgs ==
    {SubSeq([i \in 1..MaxKeyLen |-> 18], 1, n) : n \in KeyArgLens}
        \cup {SubSeq([i \in 1..MaxKeyLen |-> (i * i + 101) % 256], 1, n) : n \in KeyArgLens}

\* the cipher variables while no cipher run is followed
CipherSessionsIdle ==
    /\ key = <<>>
    /\ fresh = None
    /\ plain = <<>>
    /\ enc = None
    /\ twin = None
    /\ dec = None
    /\ offset = 0
    /\ last = NoCall
    /\ wire = <<>>
    /\ dec_last = [at |-> 0, in |-> <<>>, out |-> <<>>]
    /\ panicked = {}

CipherIdle ==
    /\ overflow_checks = FALSE
    /\ CipherSessionsIdle

\* the offsets in expanded_key the three generators are filled from
SeedOffsets == <<0, 220, 448>>

NewInit ==
    /\ new_key \in KeyArgs
    /\ new_pc = "struct"
    /\ new_sc = None
    /\ new_expanded_key = <<>>
    /\ new_i = 0
    /\ new_ret = None
    /\ new_passes = <<>>
    /\ new_reads = <<>>
    /\ CipherIdle
    /\ HandshakeIdle
    /\ RunIdle
    /\ ConnIdle
    /\ AccountIdle

\* let mut sc = StreamCipher { .. }
NewStruct ==
    /\ new_pc = "struct"
    /\ new_sc' = [generators  |-> <<KeyGeneratorNew(55, 31),
                                    KeyGeneratorNew(57, 50),
                                    KeyGeneratorNew(58, 39)>>,
                  change_data |-> ZeroWord,
                  change_len  |-> 0,
                  clocks      |-> 0]
    /\ new_pc' = "fill"
    /\ UNCHANGED <<new_key, new_expanded_key, new_i, new_ret, new_passes, new_reads>>
    /\ UNCHANGED not_kvars

\* expanded_key[0] = 128; for i in 1..680 { expanded_key[i] = key[i % 128] }:
\* the loop indexes key at 0..127 and panics on a key that is shorter
FillExpandedKey ==
    /\ new_pc = "fill"
    /\ IF Len(new_key) < KeyLen
       THEN /\ new_pc' = "panicked"
            /\ UNCHANGED new_expanded_key
       ELSE /\ new_pc' = "hash"
            /\ new_expanded_key' = ExpandedKeyInit(new_key)
    /\ UNCHANGED <<new_key, new_sc, new_i, new_ret, new_passes, new_reads>>
    /\ UNCHANGED not_kvars

\* one iteration of `for i in (0..680).step_by(20)`
HashPass ==
    /\ new_pc = "hash"
    /\ new_expanded_key'
           = WriteHash(new_expanded_key, new_i, Sha1Hash(new_expanded_key), 0)
    /\ new_passes' = Append(new_passes, [at |-> new_i,
                                         hashed |-> Len(new_expanded_key)])
    /\ new_i' = new_i + HashStride
    /\ new_pc' = IF new_i + HashStride >= ExpandedLen THEN "seed" ELSE "hash"
    /\ UNCHANGED <<new_key, new_sc, new_ret, new_reads>>
    /\ UNCHANGED not_kvars

\* the three loops that set the initial state of the KeyGenerators
SeedGenerators ==
    /\ new_pc = "seed"
    /\ new_sc' = [new_sc EXCEPT !.generators =
                     [g \in 1..3 |-> SeedGenerator(new_sc.generators[g],
                                                   new_expanded_key,
                                                   SeedOffsets[g])]]
    /\ new_reads' = [g \in 1..3 |->
                        [lo |-> SeedOffsets[g],
                         hi |-> SeedOffsets[g] + 4 * new_sc.generators[g].size]]
    /\ new_pc' = "return"
    /\ UNCHANGED <<new_key, new_expanded_key, new_i, new_ret, new_passes>>
    /\ UNCHANGED not_kvars

\* sc
NewReturns ==
    /\ new_pc = "return"
    /\ new_ret' = Some(new_sc)
    /\ new_pc' = "done"
    /\ UNCHANGED <<new_key, new_sc, new_expanded_key, new_i, new_passes, new_reads>>
    /\ UNCHANGED not_kvars

NewNext ==
    \/ NewStruct
    \/ FillExpandedKey
    \/ HashPass
    \/ SeedGenerators
    \/ NewReturns

SpecNew == NewInit /\ [][NewNext]_vars

(***************************************************************************)
(* The binary: main(), run_command() and start_server().                   *)
(***************************************************************************)
\* what can go wrong in a run: the configuration file, the opcode mapping
\* file, the database of the migrations, the database pool, the bind of the
\* network server
RunEnvs ==
    [config_ok : BOOLEAN, opcode_ok : BOOLEAN, migrations_ok : BOOLEAN,
     pool_ok : BOOLEAN, bind_ok : BOOLEAN]

NoTasks == [multiverse |-> "none", web |-> "none", network |-> "none"]

RunInit ==
    /\ run_cmd \in {"run", "none"}
    /\ run_env \in RunEnvs
    /\ run_pc = "config"
    /\ run_tasks = NoTasks
    /\ run_log = <<>>
    /\ run_result = "pending"
    /\ exit_code = None
    /\ CipherIdle
    /\ HandshakeIdle
    /\ NewIdle
    /\ ConnIdle
    /\ AccountIdle

\* run_command: read_configuration(&path)
ReadConfiguration ==
    /\ run_pc = "config"
    /\ IF run_env.config_ok
       THEN /\ run_pc' = "dispatch"
            /\ UNCHANGED <<run_log, run_result>>
       ELSE /\ run_log' = Append(run_log, "Can't read configuration file")
            /\ run_result' = "Err"
            /\ run_pc' = "returned"
    /\ UNCHANGED <<run_cmd, run_env, run_tasks, exit_code>>
    /\ UNCHANGED not_rvars

\* run_command: no subcommand matched, Ok(())
NoSubcommand ==
    /\ run_pc = "dispatch"
    /\ run_cmd = "none"
    /\ run_result' = "Ok"
    /\ run_pc' = "returned"
    /\ UNCHANGED <<run_cmd, run_env, run_tasks, run_log, exit_code>>
    /\ UNCHANGED not_rvars

\* start_server: load_opcode_mapping(&config.data.path)
LoadOpcodeMapping ==
    /\ run_pc = "dispatch"
    /\ run_cmd = "run"
    /\ IF run_env.opcode_ok
       THEN /\ run_pc' = "migrations"
            /\ UNCHANGED <<run_log, run_result>>
       ELSE /\ run_log' = Append(run_log, "Can't read opcode mapping file")
            /\ run_result' = "Err"
            /\ run_pc' = "returned"
    /\ UNCHANGED <<run_cmd, run_env, run_tasks, exit_code>>
    /\ UNCHANGED not_rvars

\* start_server: run_db_migrations(&config)?, whose connect and run are
\* unwrapped: a failure panics and the process ends with code 101
RunDbMigrations ==
    /\ run_pc = "migrations"
    /\ IF run_env.migrations_ok
       THEN /\ run_pc' = "pool"
            /\ UNCHANGED exit_code
       ELSE /\ run_pc' = "exited"
            /\ exit_code' = Some(101)
    /\ UNCHANGED <<run_cmd, run_env, run_tasks, run_log, run_result>>
    /\ UNCHANGED not_rvars

\* start_server: sqlx_pool(&config).await?
SqlxPool ==
    /\ run_pc = "pool"
    /\ IF run_env.pool_ok
       THEN /\ run_pc' = "spawn"
            /\ UNCHANGED run_result
       ELSE /\ run_result' = "Err"
            /\ run_pc' = "returned"
    /\ UNCHANGED <<run_cmd, run_env, run_tasks, run_log, exit_code>>
    /\ UNCHANGED not_rvars

\* start_server: start_multiverse, start_web_server, start_network_server
StartTasks ==
    /\ run_pc = "spawn"
    /\ run_tasks' = [multiverse |-> "running", web |-> "running",
                     network |-> "running"]
    /\ run_pc' = "join"
    /\ UNCHANGED <<run_cmd, run_env, run_log, run_result, exit_code>>
    /\ UNCHANGED not_rvars

\* multiverse.run(pool, config) returns
MultiverseStops ==
    /\ run_pc = "join"
    /\ run_tasks.multiverse = "running"
    /\ run_tasks' = [run_tasks EXCEPT !.multiverse = "done"]
    /\ UNCHANGED <<run_cmd, run_env, run_pc, run_log, run_result, exit_code>>
    /\ UNCHANGED not_rvars

\* webserver::run(pool, config).await returns; the task logs an Err itself
WebServerStops(r) ==
    /\ run_pc = "join"
    /\ run_tasks.web = "running"
    /\ run_tasks' = [run_tasks EXCEPT !.web = "done"]
    /\ run_log' = IF r = "Err" THEN Append(run_log, "Can't run the web server")
                  ELSE run_log
    /\ UNCHANGED <<run_cmd, run_env, run_pc, run_result, exit_code>>
    /\ UNCHANGED not_rvars

\* networkserver::run(..).await returns: Err at once when the bind fails,
\* Ok or Err later when it does not
NetworkServerStops(r) ==
    /\ run_pc = "join"
    /\ run_tasks.network = "running"
    /\ run_env.bind_ok \/ r = "Err"
    /\ run_tasks' = [run_tasks EXCEPT !.network =
                        IF ~run_env.bind_ok THEN "bind failed" ELSE r]
    /\ UNCHANGED <<run_cmd, run_env, run_pc, run_log, run_result, exit_code>>
    /\ UNCHANGED not_rvars

\* start_server: the join of the three handles completes; an Err of the
\* network server is logged and Ok(()) is returned
JoinReturns ==
    /\ run_pc = "join"
    /\ \A t \in DOMAIN run_tasks : run_tasks[t] # "running"
    /\ run_log' = IF run_tasks.network # "Ok"
                  THEN Append(run_log, "Can't shutdown server gracefully")
                  ELSE run_log
    /\ run_result' = "Ok"
    /\ run_pc' = "returned"
    /\ UNCHANGED <<run_cmd, run_env, run_tasks, exit_code>>
    /\ UNCHANGED not_rvars

\* main: process::exit(1) on Err(e), the end of main on Ok
MainExits ==
    /\ run_pc = "returned"
    /\ IF run_result = "Err"
       THEN /\ run_log' = Append(run_log, "Error while executing program")
            /\ exit_code' = Some(1)
       ELSE /\ run_log' = run_log
            /\ exit_code' = Some(0)
    /\ run_pc' = "exited"
    /\ UNCHANGED <<run_cmd, run_env, run_tasks, run_result>>
    /\ UNCHANGED not_rvars

RunNext ==
    \/ ReadConfiguration
    \/ NoSubcommand
    \/ LoadOpcodeMapping
    \/ RunDbMigrations
    \/ SqlxPool
    \/ StartTasks
    \/ MultiverseStops
    \/ \E r \in {"Ok", "Err"} : WebServerStops(r)
    \/ \E r \in {"Ok", "Err"} : NetworkServerStops(r)
    \/ JoinReturns
    \/ MainExits

SpecRun == RunInit /\ [][RunNext]_vars

(***************************************************************************)
(* The connection after the handshake.  GameSession::handle_connection is  *)
(* a stub and the network server the binary starts is not among the        *)
(* sources: the read loop, the global channel and the session lifecycle    *)
(* are those of the specification (framing and dispatch, lifecycle table). *)
(* The cipher the read loop calls is StreamCipher::apply_keystream.        *)
(***************************************************************************)
\* frames the client sends on the connection
MaxFrames == 3
\* capacity of the global channel
ChannelCap == 1

\* the forward opcode table: wire code to symbolic opcode
OpcodeOf(code) ==
    IF code = 19900 THEN "C_CHECK_VERSION"
    ELSE IF code = 46207 THEN "C_LOGIN_ARBITER"
    ELSE "UNKNOWN"

\* the frames a client may send: a login, a version check with and without
\* a body, and frames of an opcode the table does not know
ClientFrames ==
    { [opcode |-> 46207, payload |-> <<7, 0, 9>>],
      [opcode |-> 19900, payload |-> <<1, 2, 3, 4, 5>>],
      [opcode |-> 19900, payload |-> <<>>],
      [opcode |-> 1000,  payload |-> <<170, 187, 204, 221>>],
      [opcode |-> 1000,  payload |-> <<85>>] }

\* u16 length (header included), u16 opcode, both little-endian, payload
FrameBytes(f) ==
    <<(4 + Len(f.payload)) % 256, (4 + Len(f.payload)) \div 256,
      f.opcode % 256, f.opcode \div 256>> \o f.payload

RECURSIVE WireBytes(_)
WireBytes(frames) ==
    IF frames = <<>> THEN <<>>
    ELSE FrameBytes(Head(frames)) \o WireBytes(Tail(frames))

\* the first n keystream words of a session, clock by clock
RECURSIVE KeystreamWords(_, _)
KeystreamWords(sc, n) ==
    IF n = 0 THEN <<>>
    ELSE Bind(ClockKeys(sc), LAMBDA sc2 :
             <<XorWord(XorWord(sc2.generators[1].sum, sc2.generators[2].sum),
                       sc2.generators[3].sum)>>
                 \o KeystreamWords(sc2, n - 1))

\* what the client puts on the wire: byte k is XORed with keystream byte k
ClientCiphered(sc, bytes) ==
    Bind(KeystreamWords(sc, (Len(bytes) + 3) \div 4), LAMBDA ks :
        SubSeq([k \in 1..Len(bytes) |->
                   XorByte(bytes[k], ks[((k - 1) \div 4) + 1][((k - 1) % 4) + 1])],
               1, Len(bytes)))

\* the event of a frame, tagged with the connection
EventOf(f) == [conn |-> addr, opcode |-> OpcodeOf(f.opcode), body |-> f.payload]

\* the events the first n frames sent give rise to, in wire order
RECURSIVE EventsOf(_, _)
EventsOf(frames, n) ==
    IF n = 0 THEN <<>>
    ELSE EventsOf(frames, n - 1)
             \o (IF OpcodeOf(frames[n].opcode) = "UNKNOWN" THEN <<>>
                 ELSE <<EventOf(frames[n])>>)

ConnOpen == conn_state \in {"Authenticating", "Active"}

\* the state a failure of the connection leads to
AfterFailure == IF conn_state = "Active" THEN "Closing" ELSE "Closed"

ConnInit ==
    /\ conn_cipher = StreamCipherNew([i \in 1..KeyLen |-> 18])
    /\ overflow_checks \in BOOLEAN
    /\ conn_frames \in [1..MaxFrames -> ClientFrames]
    /\ conn_in = ClientCiphered(conn_cipher, WireBytes(conn_frames))
    /\ conn_state = "Authenticating"
    /\ conn_uid = None
    /\ conn_pc = "header"
    /\ conn_hdr = None
    /\ conn_event = None
    /\ conn_done = 0
    /\ conn_sent = <<>>
    /\ conn_response = None
    /\ global_channel = <<>>
    /\ mv_received = <<>>
    /\ CipherSessionsIdle
    /\ HandshakeIdle
    /\ NewIdle
    /\ RunIdle
    /\ AccountIdle

\* read 4 bytes; decrypt in place; parse length and opcode; length < 4 is a
\* framing error
ReadHeader ==
    /\ ConnOpen
    /\ conn_pc = "header"
    /\ Len(conn_in) >= 4
    /\ \E r \in {ApplyKeystream(conn_cipher, SubSeq(conn_in, 1, 4), overflow_checks)} :
          /\ conn_cipher' = r.sc
          /\ \E h \in {[length |-> r.data[1] + 256 * r.data[2],
                        opcode |-> r.data[3] + 256 * r.data[4]]} :
                IF h.length < 4
                THEN /\ conn_pc' = "stopped"
                     /\ conn_state' = AfterFailure
                     /\ conn_hdr' = None
                ELSE /\ conn_pc' = "body"
                     /\ conn_state' = conn_state
                     /\ conn_hdr' = Some(h)
    /\ conn_in' = SubSeq(conn_in, 5, Len(conn_in))
    /\ UNCHANGED <<conn_frames, conn_uid, conn_event, conn_done, conn_sent,
                   conn_response, global_channel, mv_received>>
    /\ UNCHANGED <<overflow_checks, not_nvars>>

\* read length - 4 more bytes; decrypt in place; map the opcode; an UNKNOWN
\* frame is dropped, any other becomes the event to enqueue
ReadBody ==
    /\ ConnOpen
    /\ conn_pc = "body"
    /\ \E n \in {conn_hdr[1].length - 4} :
          IF Len(conn_in) < n
          THEN /\ conn_pc' = "stopped"
               /\ conn_state' = AfterFailure
               /\ UNCHANGED <<conn_in, conn_cipher, conn_event, conn_done>>
          ELSE \E r \in {ApplyKeystream(conn_cipher, SubSeq(conn_in, 1, n),
                                        overflow_checks)} :
                  /\ conn_cipher' = r.sc
                  /\ conn_in' = SubSeq(conn_in, n + 1, Len(conn_in))
                  /\ IF r.panicked
                     THEN /\ conn_pc' = "panicked"
                          /\ conn_state' = "Closed"
                          /\ UNCHANGED <<conn_event, conn_done>>
                     ELSE /\ conn_done' = conn_done + 1
                          /\ conn_state' = conn_state
                          /\ IF OpcodeOf(conn_hdr[1].opcode) = "UNKNOWN"
                             THEN /\ conn_pc' = "header"
                                  /\ conn_event' = None
                             ELSE /\ conn_pc' = "send"
                                  /\ conn_event' =
                                         Some([conn   |-> addr,
                                               opcode |-> OpcodeOf(conn_hdr[1].opcode),
                                               body   |-> r.data])
    /\ conn_hdr' = None
    /\ UNCHANGED <<conn_frames, conn_uid, conn_sent, conn_response,
                   global_channel, mv_received>>
    /\ UNCHANGED <<overflow_checks, not_nvars>>

\* a send that gives up when the channel is full
SendEvent_TrySend ==
    /\ ConnOpen
    /\ conn_pc = "send"
    /\ IF Len(global_channel) < ChannelCap
       THEN /\ global_channel' = Append(global_channel, conn_event[1])
            /\ conn_sent' = Append(conn_sent, conn_event[1])
       ELSE UNCHANGED <<global_channel, conn_sent>>
    /\ conn_event' = None
    /\ conn_pc' = "header"
    /\ UNCHANGED <<conn_frames, conn_in, conn_cipher, conn_state, conn_uid,
                   conn_hdr, conn_done, conn_response, mv_received>>
    /\ UNCHANGED <<overflow_checks, not_nvars>>

\* enqueue the event into the global channel, awaiting capacity
SendEvent ==
    /\ ConnOpen
    /\ conn_pc = "send"
    /\ Len(global_channel) < ChannelCap
    /\ global_channel' = Append(global_channel, conn_event[1])
    /\ conn_sent' = Append(conn_sent, conn_event[1])
    /\ conn_event' = None
    /\ conn_pc' = "header"
    /\ UNCHANGED <<conn_frames, conn_in, conn_cipher, conn_state, conn_uid,
                   conn_hdr, conn_done, conn_response, mv_received>>
    /\ UNCHANGED <<overflow_checks, not_nvars>>

\* the socket is at its end when the read loop asks for a header
SocketEof ==
    /\ ConnOpen
    /\ conn_pc = "header"
    /\ Len(conn_in) < 4
    /\ conn_pc' = "stopped"
    /\ conn_state' = AfterFailure
    /\ UNCHANGED <<conn_frames, conn_in, conn_cipher, conn_uid, conn_hdr,
                   conn_event, conn_done, conn_sent, conn_response,
                   global_channel, mv_received>>
    /\ UNCHANGED <<overflow_checks, not_nvars>>

\* the multiverse takes the next event from the global channel
MultiverseTakes ==
    /\ global_channel # <<>>
    /\ mv_received' = Append(mv_received, Head(global_channel))
    /\ global_channel' = Tail(global_channel)
    /\ UNCHANGED <<conn_frames, conn_in, conn_cipher, conn_state, conn_uid,
                   conn_pc, conn_hdr, conn_event, conn_done, conn_sent,
                   conn_response>>
    /\ UNCHANGED <<overflow_checks, not_nvars>>

\* the events the multiverse sends back to a connection
Responses ==
    { [kind |-> "login-success", uid |-> Some(42)],
      [kind |-> "login-failed",  uid |-> None],
      [kind |-> "disconnect",    uid |-> None] }

\* the multiverse answers a login it has taken, or disconnects the session
MultiverseResponds(ev) ==
    /\ conn_state # "Closed"
    /\ conn_response = None
    /\ ev \in Responses
    /\ ev.kind \in {"login-success", "login-failed"} =>
          /\ conn_state = "Authenticating"
          /\ \E i \in 1..Len(mv_received) : mv_received[i].opcode = "C_LOGIN_ARBITER"
    /\ conn_response' = Some(ev)
    /\ UNCHANGED <<conn_frames, conn_in, conn_cipher, conn_state, conn_uid,
                   conn_pc, conn_hdr, conn_event, conn_done, conn_sent,
                   global_channel, mv_received>>
    /\ UNCHANGED <<overflow_checks, not_nvars>>

\* a session that takes any answer to its login for a success
HandleResponse_AnyAnswer ==
    /\ conn_state # "Closed"
    /\ conn_response # None
    /\ conn_response' = None
    /\ \E ev \in {conn_response[1]} :
          IF conn_state = "Authenticating" /\ ev.kind \in {"login-success", "login-failed"}
          THEN /\ conn_state' = "Active"
               /\ conn_uid' = ev.uid
          ELSE IF conn_state = "Active" /\ ev.kind = "disconnect"
          THEN /\ conn_state' = "Closing"
               /\ conn_uid' = conn_uid
          ELSE UNCHANGED <<conn_state, conn_uid>>
    /\ UNCHANGED <<conn_frames, conn_in, conn_cipher, conn_pc, conn_hdr,
                   conn_event, conn_done, conn_sent, global_channel, mv_received>>
    /\ UNCHANGED <<overflow_checks, not_nvars>>

\* the session handles the event that came back from the multiverse
HandleResponse ==
    /\ conn_state # "Closed"
    /\ conn_response # None
    /\ conn_response' = None
    /\ \E ev \in {conn_response[1]} :
          IF conn_state = "Authenticating" /\ ev.kind = "login-success" /\ ev.uid # None
          THEN /\ conn_state' = "Active"
               /\ conn_uid' = ev.uid
          ELSE IF conn_state = "Authenticating" /\ ev.kind = "login-failed"
          THEN /\ conn_state' = "Closed"
               /\ conn_uid' = conn_uid
          ELSE IF conn_state = "Active" /\ ev.kind = "disconnect"
          THEN /\ conn_state' = "Closing"
               /\ conn_uid' = conn_uid
          ELSE UNCHANGED <<conn_state, conn_uid>>
    /\ UNCHANGED <<conn_frames, conn_in, conn_cipher, conn_pc, conn_hdr,
                   conn_event, conn_done, conn_sent, global_channel, mv_received>>
    /\ UNCHANGED <<overflow_checks, not_nvars>>

\* no login-success arrived in time
AuthTimeout ==
    /\ conn_state = "Authenticating"
    /\ conn_state' = "Closed"
    /\ UNCHANGED <<conn_frames, conn_in, conn_cipher, conn_uid, conn_pc, conn_hdr,
                   conn_event, conn_done, conn_sent, conn_response,
                   global_channel, mv_received>>
    /\ UNCHANGED <<overflow_checks, not_nvars>>

\* the outbound channel is drained or the grace deadline passed
DrainDone ==
    /\ conn_state = "Closing"
    /\ conn_state' = "Closed"
    /\ UNCHANGED <<conn_frames, conn_in, conn_cipher, conn_uid, conn_pc, conn_hdr,
                   conn_event, conn_done, conn_sent, conn_response,
                   global_channel, mv_received>>
    /\ UNCHANGED <<overflow_checks, not_nvars>>

ConnNext ==
    \/ ReadHeader
    \/ ReadBody
    \/ SendEvent
    \/ SocketEof
    \/ MultiverseTakes
    \/ \E ev \in Responses : MultiverseResponds(ev)
    \/ HandleResponse
    \/ AuthTimeout
    \/ DrainDone

SpecConn == ConnInit /\ [][ConnNext]_vars

(***************************************************************************)
(* create_account (bin/almetica.rs).  The account repository and the       *)
(* database are seen through the two calls create_account makes: the       *)
(* lookup by name answers with the stored row, with RowNotFound when no    *)
(* row has the name, or with another error; the insert adds one row with   *)
(* the next ID or fails and adds nothing.                                  *)
(***************************************************************************)
MaxNames == 2
MaxAccounts == 2

\* the names on the command line; 0 is the empty name of a missing argument
AccountNames == 0..MaxNames
AccountPasswords == {0, 1}

\* the errors a call to the database can end with, besides RowNotFound
SqlxErrors == {"Database", "Io", "PoolTimedOut"}

\* the rows of the account table: names are unique, the ID is the position
AccountStores ==
    UNION {{st \in [1..n -> [name : AccountNames, password : AccountPasswords]] :
               \A i, j \in 1..n : st[i].name = st[j].name => i = j} :
           n \in 0..MaxAccounts}

\* the IDs of the rows with the given name
RowsNamed(store, name) == {i \in 1..Len(store) : store[i].name = name}

\* the answers of account::get_by_name(&mut conn, account_name)
LookupOutcomes(store, name) ==
    (IF RowsNamed(store, name) = {}
     THEN {[kind |-> "RowNotFound", id |-> 0, e |-> "RowNotFound"]}
     ELSE {[kind |-> "Ok", id |-> i, e |-> ""] : i \in RowsNamed(store, name)})
    \cup {[kind |-> "Err", id |-> 0, e |-> e] : e \in SqlxErrors}

AccountInit ==
    /\ acc_name \in AccountNames
    /\ acc_password \in AccountPasswords
    /\ acc_store \in AccountStores
    /\ acc_before = acc_store
    /\ acc_pc = "acquire"
    /\ acc_lookup = None
    /\ acc_result = <<"pending">>
    /\ acc_log = <<>>
    /\ CipherIdle
    /\ HandshakeIdle
    /\ NewIdle
    /\ RunIdle
    /\ ConnIdle

\* let mut conn = sqlx_pool(&config).await?.acquire().await?;
AcquireConnection ==
    /\ acc_pc = "acquire"
    /\ \E r \in {"Ok"} \cup SqlxErrors :
          IF r = "Ok"
          THEN /\ acc_pc' = "lookup"
               /\ acc_result' = acc_result
          ELSE /\ acc_pc' = "returned"
               /\ acc_result' = <<"Err", r>>
    /\ UNCHANGED <<acc_name, acc_password, acc_store, acc_before, acc_lookup,
                   acc_log>>
    /\ UNCHANGED not_avars

\* account::get_by_name(&mut conn, account_name).await
GetByName ==
    /\ acc_pc = "lookup"
    /\ \E r \in LookupOutcomes(acc_store, acc_name) : acc_lookup' = Some(r)
    /\ acc_pc' = "match"
    /\ UNCHANGED <<acc_name, acc_password, acc_store, acc_before, acc_result,
                   acc_log>>
    /\ UNCHANGED not_avars

\* a match that takes every error of the lookup for a missing row
MatchLookup_AnyErrorCreates ==
    /\ acc_pc = "match"
    /\ \E r \in {acc_lookup[1]} :
          IF r.kind \in {"RowNotFound", "Err"}
          THEN \E c \in {"Ok"} \cup SqlxErrors :
                  IF c = "Ok"
                  THEN /\ acc_store' = Append(acc_store,
                                          [name |-> acc_name, password |-> acc_password])
                       /\ acc_log' = Append(acc_log,
                                        <<"info", "Created account", Len(acc_store) + 1>>)
                       /\ acc_result' = <<"Ok">>
                  ELSE /\ acc_result' = <<"Err", c>>
                       /\ UNCHANGED <<acc_store, acc_log>>
          ELSE /\ acc_log' = Append(acc_log, <<"error", "already exists", r.id>>)
               /\ acc_result' = <<"Ok">>
               /\ acc_store' = acc_store
    /\ acc_pc' = "returned"
    /\ UNCHANGED <<acc_name, acc_password, acc_before, acc_lookup>>
    /\ UNCHANGED not_avars

\* the match on the answer of the lookup, with account::create(..).await? in
\* its first arm, and the Ok(()) after it
MatchLookup ==
    /\ acc_pc = "match"
    /\ \E r \in {acc_lookup[1]} :
          IF r.kind = "RowNotFound"
          THEN \E c \in {"Ok"} \cup SqlxErrors :
                  IF c = "Ok"
                  THEN /\ acc_store' = Append(acc_store,
                                          [name |-> acc_name, password |-> acc_password])
                       /\ acc_log' = Append(acc_log,
                                        <<"info", "Created account", Len(acc_store) + 1>>)
                       /\ acc_result' = <<"Ok">>
                  ELSE /\ acc_result' = <<"Err", c>>
                       /\ UNCHANGED <<acc_store, acc_log>>
          ELSE IF r.kind = "Err"
          THEN /\ acc_result' = <<"Err", r.e>>
               /\ UNCHANGED <<acc_store, acc_log>>
          ELSE /\ acc_log' = Append(acc_log, <<"error", "already exists", r.id>>)
               /\ acc_result' = <<"Ok">>
               /\ acc_store' = acc_store
    /\ acc_pc' = "returned"
    /\ UNCHANGED <<acc_name, acc_password, acc_before, acc_lookup>>
    /\ UNCHANGED not_avars

AccountNext ==
    \/ AcquireConnection
    \/ GetByName
    \/ MatchLookup

SpecAccount == AccountInit /\ [][AccountNext]_vars

(***************************************************************************)
(* The keystream of a key, defined without apply_keystream: word j is      *)
(* sum0 XOR sum1 XOR sum2 after j + 1 clocks of a fresh session, and the   *)
(* k-th keystream byte (k from 0) is byte k mod 4, little-endian, of word   *)
(* k div 4.                                                                *)
(***************************************************************************)
RECURSIVE KeystreamFrom(_, _)
KeystreamFrom(sc, n) ==
    IF n = 0 THEN <<>>
    ELSE Bind(ClockKeys(sc), LAMBDA sc2 :
             <<XorWord(XorWord(sc2.generators[1].sum, sc2.generators[2].sum),
                       sc2.generators[3].sum)>>
                 \o KeystreamFrom(sc2, n - 1))

\* the last call on enc returned
EncReturned == "enc" \notin panicked

(***************************************************************************)
(* Claims about the cipher, under Spec.                                    *)
(***************************************************************************)

\* C1 (chunking independence): whenever a single apply_keystream call on the
\* plaintext handed over so far completes, the calls on its consecutive
\* chunks have completed too and the chunk just produced is the matching
\* slice of the single call's output, for every schedule of chunk lengths,
\* chunks of 0, 1 and 2 bytes included.
C1_ChunkingIndependence ==
    LET whole == ApplyKeystream(fresh, SubSeq(plain, 1, offset),
                                overflow_checks)
    IN  ~whole.panicked =>
            /\ EncReturned
            /\ last.out = SubSeq(whole.data, last.at + 1, offset)

\* the part of C1 the code keeps: schedules whose calls all returned
C1_ChunkingOfReturnedCalls ==
    LET whole == ApplyKeystream(fresh, SubSeq(plain, 1, offset),
                                overflow_checks)
    IN  EncReturned => /\ ~whole.panicked \/ offset < 3
                       /\ offset >= 3 =>
                              last.out = SubSeq(whole.data, last.at + 1, offset)

\* C2 (no keystream byte lost or reordered): after any sequence of calls,
\* byte k of everything handed to the session has been XORed with keystream
\* byte k, and the generators have been clocked ceil(N/4) times for the N
\* bytes handed over.
C2_KeystreamInOrder ==
    /\ Len(last.out) = Len(last.in)
    /\ \A ks \in {KeystreamFrom(fresh, (offset + 3) \div 4)} :
       \A i \in 1..Len(last.in) :
          last.out[i] = XorByte(last.in[i],
                                ks[((last.at + i - 1) \div 4) + 1][((last.at + i - 1) % 4) + 1])
    /\ enc.clocks = (offset + 3) \div 4

\* the part of C2 the code keeps: sequences of calls that all returned
C2_InOrderOfReturnedCalls == EncReturned => C2_KeystreamInOrder

\* C3 (any length tolerated): no apply_keystream call panics, whatever the
\* length of its buffer and the change_len of the session.
C3_AnyLengthTolerated == panicked = {}

\* the part of C3 the code keeps: the calls that panic are exactly those on
\* buffers shorter than 3 bytes
C3_PanicsOnlyBelowThree ==
    /\ ("enc" \in panicked) <=> (last.calls > 0 /\ Len(last.in) < 3)
    /\ "dec" \notin panicked

\* C4 (involution): once the decrypting peer has taken every chunk off the
\* wire, it has returned every plaintext byte handed to the encrypting peer,
\* unchanged.
C4_Involution ==
    /\ dec_last.out = SubSeq(plain, dec_last.at + 1, dec_last.at + Len(dec_last.in))
    /\ wire = <<>> => dec_last.at + Len(dec_last.in) = offset

\* the part of C4 the code keeps: every chunk that was encrypted decrypts to
\* the plaintext it came from
C4_InvolutionOfReturnedCalls ==
    /\ dec_last.out = SubSeq(plain, dec_last.at + 1, dec_last.at + Len(dec_last.in))
    /\ (wire = <<>> /\ EncReturned) => dec_last.at + Len(dec_last.in) = offset

\* C7 (the keystream does not depend on the data): the twin session, built
\* from the same key and driven by calls of the same lengths on all-zero
\* buffers, has the same generator state, change_data and change_len after
\* every call, and the output of a call on data d is d XOR the twin's
\* output; where d is zero too the two outputs are equal.
C7_KeystreamIgnoresData ==
    /\ twin.generators = enc.generators
    /\ twin.change_data = enc.change_data
    /\ twin.change_len = enc.change_len
    /\ ("twin" \in panicked) <=> ("enc" \in panicked)
    /\ Len(last.out) = Len(last.in)
    /\ Len(last.twin_out) = Len(last.in)
    /\ \A i \in 1..Len(last.in) :
          /\ last.out[i] = XorByte(last.in[i], last.twin_out[i])
          /\ last.in[i] = 0 => last.out[i] = last.twin_out[i]

\* C7's case: a second or later call, on data that is not all zero, in a
\* session that holds owed keystream bytes
C7_Witness ==
    /\ last.calls >= 2
    /\ enc.change_len > 0
    /\ EncReturned
    /\ \E i \in 1..Len(last.in) : last.in[i] # 0 /\ last.out[i] # last.twin_out[i]

\* C8 as claimed (write-back): once a generator has been advanced, the slot
\* its pos1 pointed at before the advance holds the new sum.
C8_SumWrittenBack ==
    enc.clocks > 0 =>
        \A g \in 1..3 :
            LET k == enc.generators[g]
            IN  k.buffer[((k.pos1 + k.size - 1) % k.size) + 1] = k.sum

\* C8 as amended (no write-back): an advance stores buffer[pos1] +
\* buffer[pos2] (mod 2^32) in the generator's sum field only; no buffer is
\* written after construction, so the slot keeps its seed word.
C8_SumKeptOutOfBuffer ==
    \A g \in 1..3 :
        LET k  == enc.generators[g]
            p1 == ((k.pos1 + k.size - 1) % k.size) + 1
            p2 == ((k.pos2 + k.size - 1) % k.size) + 1
        IN  /\ k.buffer = fresh.generators[g].buffer
            /\ enc.clocks > 0 => k.sum = OverflowingAdd(k.buffer[p1], k.buffer[p2]).sum

\* C8's case: a generator was advanced and the slot it consumed differs from
\* the sum
C8_Witness ==
    /\ enc.clocks >= 2
    /\ \E g \in 1..3 :
          LET k == enc.generators[g]
          IN  k.buffer[((k.pos1 + k.size - 1) % k.size) + 1] # k.sum

\* C9 (majority clocking): over a call that clocks once, the generators
\* whose carry before the clock equals (c0 and c1) or (c2 and (c0 or c1))
\* are advanced one step, and every other generator is left as it was.
C9_MajorityClocking ==
    [][enc'.clocks = enc.clocks + 1 =>
          LET c0 == enc.generators[1].carry
              c1 == enc.generators[2].carry
              c2 == enc.generators[3].carry
              majority == (c0 /\ c1) \/ (c2 /\ (c0 \/ c1))
          IN  \A g \in 1..3 :
                  LET k  == enc.generators[g]
                      k2 == enc'.generators[g]
                      r  == OverflowingAdd(k.buffer[k.pos1 + 1], k.buffer[k.pos2 + 1])
                  IN  IF k.carry = majority
                      THEN /\ k2.pos1 = (k.pos1 + 1) % k.size
                           /\ k2.pos2 = (k.pos2 + 1) % k.size
                           /\ k2.sum = r.sum
                           /\ k2.carry = r.carry
                      ELSE k2 = k]_vars

\* C9's case: a clock has skipped a generator, so two generators have been
\* advanced a different number of times
C9_Witness ==
    /\ EncReturned
    /\ \E g \in 1..3, h \in 1..3 :
          /\ enc.generators[g].pos1 # enc.generators[h].pos1
          /\ enc.generators[g].carry # enc.generators[h].carry

\* C10 (positions): in every state each generator of each session has its
\* size (55, 57, 58) and 0 <= pos1, pos2 < size, and over every call each
\* generator's two positions move by the same number of steps modulo size,
\* at most one step per clock.
C10_Positions ==
    /\ [](\A sc \in {enc, twin, dec} : \A g \in 1..3 :
             /\ sc.generators[g].size = <<55, 57, 58>>[g]
             /\ sc.generators[g].pos1 \in 0..(sc.generators[g].size - 1)
             /\ sc.generators[g].pos2 \in 0..(sc.generators[g].size - 1))
    /\ [][\A g \in 1..3 :
             \E d \in 0..(enc'.clocks - enc.clocks) :
                 /\ enc'.generators[g].pos1
                        = (enc.generators[g].pos1 + d) % enc.generators[g].size
                 /\ enc'.generators[g].pos2
                        = (enc.generators[g].pos2 + d) % enc.generators[g].size]_vars

\* C10's case: a position has gone round the ring (pos2 of the second
\* generator, which starts at 50 of 57)
C10_Witness ==
    /\ enc.generators[2].pos2 < 50
    /\ enc.generators[2].pos1 > 0

(***************************************************************************)
(* Claims about the handshake, under SpecHandshake.                        *)
(***************************************************************************)
\* the stream operations of a handshake, in order
HandshakeOps ==
    <<[op |-> "write_all",  len |-> 4],
      [op |-> "read_exact", len |-> 128],
      [op |-> "write_all",  len |-> 128],
      [op |-> "read_exact", len |-> 128],
      [op |-> "write_all",  len |-> 128]>>

\* C5 (the handshake sequence): the operations new() performs are, in this
\* order and with no byte moved in between, write 01 00 00 00, read 128,
\* write 128, read 128, write 128; a session exists only once the fifth
\* has completed and Ok is returned.
C5_HandshakeSequence ==
    /\ Len(ops) <= 5
    /\ \A i \in 1..Len(ops) :
          /\ ops[i].op = HandshakeOps[i].op
          /\ ops[i].len = HandshakeOps[i].len
          /\ ops[i].result = "ok" =>
                /\ ops[i].written = <<4, 4, 132, 132, 260>>[i]
                /\ (2 * KeyLen + TrailingBytes) - ops[i].read = <<0, 128, 128, 256, 256>>[i]
    /\ Len(outbound) >= 1 => outbound[1] = 1
    /\ \A i \in 2..4 : Len(outbound) >= i => outbound[i] = 0
    /\ result = "Ok" <=> session # None
    /\ result = "Ok" =>
          /\ Len(ops) = 5
          /\ \A i \in 1..5 : ops[i].result = "ok"
          /\ outbound = <<1, 0, 0, 0>> \o server_key_1 \o server_key_2
          /\ Len(inbound) = TrailingBytes
          /\ session[1].crypt.client_keys = <<client_key_1, client_key_2>>
          /\ session[1].crypt.server_keys = <<server_key_1, server_key_2>>


\* C5's case: every operation succeeded and new() returned the session
C5_Witness ==
    /\ result = "Ok"
    /\ Len(ops) = 5
    /\ session # None
    /\ Len(outbound) = 260

\* C6 (a failed step is fatal): an operation that fails is the last one
\* new() performs: Err is returned, no byte is read or written after the
\* failure, and no session is built.
C6_FailureIsFatal ==
    /\ \A i \in 1..Len(ops) :
          ops[i].result = "err" =>
              /\ i = Len(ops)
              /\ result = "Err"
              /\ session = None
              /\ Len(outbound) = ops[i].written
              /\ Len(inbound) = ops[i].read
    /\ result = "Err" =>
          /\ session = None
          /\ Len(ops) >= 1
          /\ ops[Len(ops)].result = "err"
    /\ result = "pending" => session = None

\* C6's case: a step after the first failed, part of the way through its
\* transfer
C6_Witness ==
    /\ result = "Err"
    /\ Len(ops) >= 3
    /\ hs_progress > 0


(***************************************************************************)
(* Further claims about the cipher, under Spec.                            *)
(***************************************************************************)
\* C11 (change_len): change_len is 0 after construction and in 0..3 in
\* every state of every session; after a call that returned it is the
\* number of bytes of the last keystream word not yet XORed into data (four
\* per clock, less the bytes processed), and while bytes are owed
\* change_data is that word.
C11_ChangeLen ==
    /\ fresh.change_len = 0
    /\ \A sc \in {enc, twin, dec} : sc.change_len \in 0..3
    /\ dec.change_len = (4 * dec.clocks) - (dec_last.at + Len(dec_last.in))
    /\ EncReturned =>
          /\ enc.change_len = (4 * enc.clocks) - offset
          /\ enc.change_len > 0 =>
                enc.change_data
                    = XorWord(XorWord(enc.generators[1].sum, enc.generators[2].sum),
                              enc.generators[3].sum)

\* C11's case: a call that began in the middle of a keystream word has
\* returned and left one byte of a later word owed
C11_Witness ==
    /\ EncReturned
    /\ last.calls >= 2
    /\ last.at % 4 # 0
    /\ enc.change_len = 1

\* C18 (at least two generators per clock): over a call that clocks once, at
\* least two of the three generators are advanced, and all three by the
\* first clock after construction, when every carry is false.
C18_TwoOfThreeAdvance ==
    /\ [](\A g \in 1..3 : ~fresh.generators[g].carry)
    /\ [][enc'.clocks = enc.clocks + 1 =>
             LET advanced == {g \in 1..3 :
                                 enc'.generators[g].pos1
                                     = (enc.generators[g].pos1 + 1) % enc.generators[g].size}
             IN  /\ Cardinality(advanced) >= 2
                 /\ enc.clocks = 0 => advanced = 1..3]_vars

\* C18's case: after the first clock, a clock has advanced two generators
\* and left the third
C18_Witness ==
    /\ enc.clocks >= 2
    /\ \E g \in 1..3 : enc.generators[g].pos1 = enc.clocks - 1
    /\ \E g \in 1..3 : enc.generators[g].pos1 = enc.clocks

\* C19 (lag): in every state every generator of every session has
\* (pos2 - pos1) mod size equal to its coefficient, 31, 50 and 39.
C19_LagKept ==
    \A sc \in {fresh, enc, twin, dec} :
        \A g \in 1..3 :
            LET k == sc.generators[g]
            IN  ((k.pos2 + k.size) - k.pos1) % k.size = <<31, 50, 39>>[g]

\* C19's case: the generators have been advanced unequally and pos2 of the
\* second has gone round the ring past pos1
C19_Witness ==
    /\ enc.generators[2].pos2 < enc.generators[2].pos1
    /\ enc.generators[1].pos1 # enc.generators[3].pos1

(***************************************************************************)
(* Further claims about the handshake, under SpecHandshake.                *)
(***************************************************************************)
\* C20 (byte counts under fragmentation): whatever the partial transfers,
\* the magic word is written before any byte is read, server key 1 only
\* after all of client key 1 has been read, client key 2 only after all of
\* server key 1 has been written, server key 2 only after all of client key
\* 2 has been read; a successful handshake has consumed 256 bytes and
\* emitted 260, and the bytes after client key 2 are still in the stream.
C20_ByteCounts ==
    LET consumed == (2 * KeyLen + TrailingBytes) - Len(inbound)
        emitted  == Len(outbound)
    IN  /\ consumed <= 256
        /\ emitted <= 260
        /\ consumed > 0 => emitted >= 4
        /\ emitted > 4 => consumed >= 128
        /\ consumed > 128 => emitted >= 132
        /\ emitted > 132 => consumed = 256
        /\ result = "Ok" =>
              /\ consumed = 256
              /\ emitted = 260
              /\ inbound = [i \in 1..TrailingBytes |-> 240 + i]
              /\ client_key_1 \in ClientKeys
              /\ client_key_2 \in ClientKeys

\* C20's case: the handshake succeeded and bytes that follow client key 2
\* were in the stream
C20_Witness ==
    /\ result = "Ok"
    /\ hs_pc = 6
    /\ Len(inbound) > 0


(***************************************************************************)
(* Claims about the construction, under SpecNew.                           *)
(***************************************************************************)
\* the step-by-step run of new() builds the session StreamCipherNew gives
\* the cipher run
NewReturnsStreamCipherNew ==
    new_pc = "done" => new_ret = Some(StreamCipherNew(new_key))

\* C12 (a key that is not 128 bytes long is rejected): new() on a key
\* shorter or longer than 128 bytes neither panics nor returns a session.
C12_BadKeyRejected ==
    Len(new_key) # KeyLen =>
        /\ new_pc # "panicked"
        /\ new_ret = None

\* C17 (expansion and seeding): the buffer starts as 128 followed by
\* key[i mod 128]; there are exactly 34 passes, pass p at byte 20p, each
\* hashing the whole buffer as the passes before left it and overwriting
\* exactly bytes [20p, 20p + 20), so every byte is overwritten once; the
\* generators are filled from [0, 220), [220, 448) and [448, 680), word by
\* word little-endian, three ranges that are disjoint, cover the buffer and
\* end at byte 679.
C17_ExpansionAndSeeding ==
    /\ []((new_pc = "hash" /\ new_i = 0) =>
             /\ Len(new_expanded_key) = 680
             /\ new_expanded_key[1] = 128
             /\ \A i \in 1..679 : new_expanded_key[i + 1] = new_key[(i % 128) + 1])
    /\ [](/\ \A p \in 1..Len(new_passes) :
                /\ new_passes[p].at = 20 * (p - 1)
                /\ new_passes[p].hashed = 680
          /\ Len(new_passes) <= 34
          /\ new_pc = "hash" => Len(new_passes) < 34
          /\ new_pc \in {"seed", "return", "done"} =>
                /\ Len(new_passes) = 34
                /\ \A b \in 0..679 :
                      Cardinality({p \in 1..34 : /\ new_passes[p].at <= b
                                                 /\ b < new_passes[p].at + 20}) = 1)
    /\ [][new_passes' # new_passes =>
             \A hash \in {Sha1Hash(new_expanded_key)} :
             \A b \in 0..679 :
                 new_expanded_key'[b + 1]
                     = IF b \in new_i..(new_i + 19)
                       THEN hash[((b - new_i) \div 4) + 1][((b - new_i) % 4) + 1]
                       ELSE new_expanded_key[b + 1]]_vars
    /\ [](new_pc \in {"return", "done"} =>
             /\ new_reads = <<[lo |-> 0, hi |-> 220], [lo |-> 220, hi |-> 448],
                              [lo |-> 448, hi |-> 680]>>
             /\ \A b \in 0..679 :
                   Cardinality({g \in 1..3 : new_reads[g].lo <= b /\ b < new_reads[g].hi}) = 1
             /\ \A g \in 1..3 :
                   /\ Len(new_sc.generators[g].buffer) = <<55, 57, 58>>[g]
                   /\ \A i \in 0..(<<55, 57, 58>>[g] - 1) :
                         \A m \in 1..4 :
                             new_sc.generators[g].buffer[i + 1][m]
                                 = new_expanded_key[new_reads[g].lo + 4 * i + m])

\* C17's case: new() returned the session built from a 128-byte key
C17_Witness ==
    /\ Len(new_key) = KeyLen
    /\ new_pc = "done"
    /\ Len(new_passes) = 34
    /\ new_ret # None


(***************************************************************************)
(* Claims about the binary, under SpecRun.                                 *)
(***************************************************************************)
\* C13 (exit codes of the run command): when the process has exited after
\* the configuration could not be read, the opcode mapping could not be
\* loaded or the network server could not bind, its code is not zero; when
\* it has exited with zero, the three tasks ended and the network server
\* ended with Ok.
C13_ExitCodes ==
    (run_cmd = "run" /\ exit_code # None) =>
        /\ ~run_env.config_ok => exit_code[1] # 0
        /\ (run_pc = "exited" /\ "Can't read opcode mapping file" \in
                {run_log[i] : i \in 1..Len(run_log)}) => exit_code[1] # 0
        /\ run_tasks.network = "bind failed" => exit_code[1] # 0
        /\ exit_code[1] = 0 =>
              /\ run_tasks.multiverse = "done"
              /\ run_tasks.web = "done"
              /\ run_tasks.network = "Ok"

\* the part of C13 the code keeps: a configuration or an opcode mapping
\* that cannot be read, and a failure of the database, end the process with
\* a code that is not zero
C13_EarlyFailuresExitNonZero ==
    (run_cmd = "run" /\ exit_code # None) =>
        ((~run_env.config_ok \/ ~run_env.opcode_ok \/ ~run_env.migrations_ok
              \/ ~run_env.pool_ok) <=> exit_code[1] # 0)


C15_UnknownFrameDropped ==
    /\ conn_pc = "panicked" =>
          OpcodeOf(conn_frames[conn_done + 1].opcode) # "UNKNOWN"
    /\ \A i \in 1..Len(conn_sent) : conn_sent[i].opcode # "UNKNOWN"
    /\ conn_hdr # None =>
          conn_hdr[1] = [length |-> 4 + Len(conn_frames[conn_done + 1].payload),
                         opcode |-> conn_frames[conn_done + 1].opcode]
    /\ \A i \in 1..Len(conn_sent) :
          \E j \in 1..conn_done :
              /\ conn_sent[i].opcode = OpcodeOf(conn_frames[j].opcode)
              /\ conn_sent[i].body = conn_frames[j].payload

\* the part of C15 the code keeps: the read loop goes down only on a frame
\* whose body is shorter than 3 bytes, of whatever opcode
C15_DroppedUnlessBodyShort ==
    /\ conn_pc = "panicked" => Len(conn_frames[conn_done + 1].payload) < 3
    /\ \A i \in 1..Len(conn_sent) : conn_sent[i].opcode # "UNKNOWN"
    /\ conn_hdr # None =>
          conn_hdr[1] = [length |-> 4 + Len(conn_frames[conn_done + 1].payload),
                         opcode |-> conn_frames[conn_done + 1].opcode]

\* C16 (session lifecycle): a session is Authenticating with no user-id
\* from the handshake on; it becomes Active only by handling a
\* login-success event that carries a user-id, which it takes; no step
\* leaves Closed.
C16_Lifecycle ==
    /\ [](conn_state = "Authenticating" => conn_uid = None)
    /\ [](conn_state = "Active" => conn_uid # None)
    /\ [][conn_state = "Closed" => conn_state' = "Closed"]_vars
    /\ [][(conn_state # "Active" /\ conn_state' = "Active") =>
             /\ conn_state = "Authenticating"
             /\ conn_response # None
             /\ conn_response[1].kind = "login-success"
             /\ conn_response[1].uid # None
             /\ conn_uid' = conn_response[1].uid]_vars

\* C16's case: a session that was Active has been closed
C16_Witness ==
    /\ conn_state = "Closed"
    /\ conn_uid # None


(***************************************************************************)
(* Claims about create_account, under SpecAccount.                         *)
(***************************************************************************)
\* C21 (create_account creates only on a missing row): the stored accounts
\* change only in the step that handles a lookup answered with RowNotFound,
\* and then by one account of the given name; once create_account has
\* returned after a lookup that found the account, the stored accounts are
\* those of the call, nothing was created and the result is Ok; after a
\* lookup that failed with another error, the stored accounts are those of
\* the call and the result is that error.
C21_CreatesOnlyWhenRowNotFound ==
    /\ [][acc_store' # acc_store =>
             /\ acc_lookup # None
             /\ acc_lookup[1].kind = "RowNotFound"
             /\ RowsNamed(acc_store, acc_name) = {}
             /\ Len(acc_store') = Len(acc_store) + 1
             /\ SubSeq(acc_store', 1, Len(acc_store)) = acc_store
             /\ acc_store'[Len(acc_store')].name = acc_name]_vars
    /\ []((acc_pc = "returned" /\ acc_lookup # None /\ acc_lookup[1].kind = "Ok") =>
             /\ RowsNamed(acc_before, acc_name) # {}
             /\ acc_store = acc_before
             /\ \A i \in 1..Len(acc_log) : acc_log[i][1] # "info"
             /\ acc_result = <<"Ok">>)
    /\ []((acc_pc = "returned" /\ acc_lookup # None /\ acc_lookup[1].kind = "Err") =>
             /\ acc_store = acc_before
             /\ \A i \in 1..Len(acc_log) : acc_log[i][1] # "info"
             /\ acc_result = <<"Err", acc_lookup[1].e>>)
    /\ []((acc_pc = "returned" /\ RowsNamed(acc_before, acc_name) # {}) =>
             acc_store = acc_before)

\* C21's cases: create_account has returned Ok without creating, the
\* account being there already among others
C21_Witness ==
    /\ acc_pc = "returned"
    /\ acc_lookup # None
    /\ acc_lookup[1].kind = "Ok"
    /\ acc_result = <<"Ok">>
    /\ Len(acc_store) = MaxAccounts

\* the other cases of C21 happen too: an account was created, and a lookup
\* that failed was returned
C21_CreatedReached ==
    /\ acc_pc = "returned"
    /\ Len(acc_store) = Len(acc_before) + 1
    /\ acc_result = <<"Ok">>

C21_LookupErrorReached ==
    /\ acc_pc = "returned"
    /\ acc_lookup # None
    /\ acc_lookup[1].kind = "Err"
    /\ RowsNamed(acc_before, acc_name) # {}
    /\ acc_result = <<"Err", "Database">>

=============================================================================
